---- MODULE Spec2Model ----
(***************************************************************************)
(* Model of src/solver.py: RecaptchaSolver.solve_recaptcha_v2_challenge    *)
(* (the challenge state machine), _solve_audio_challenge (the              *)
(* transcription pipeline), _human_type and is_solved (the status probe),  *)
(* driven by one caller as in src/test.py: one solve call, and is_solved   *)
(* calls before or after it.                                               *)
(*                                                                         *)
(* The browser session, the HTTP fetch, the transcoder, the file system    *)
(* and the recognition service are the environment: every call the code    *)
(* makes on them has its outcomes chosen nondeterministically among the    *)
(* ones the code distinguishes (element located / TimeoutException, text / *)
(* UnknownValueError / RequestError, os.remove succeeding / raising).      *)
(* switch_to.default_content() and switch_to.parent_frame() take no        *)
(* element reference and are modelled as always succeeding (a live         *)
(* session).                                                               *)
(***************************************************************************)
EXTENDS Integers, Sequences, FiniteSets, TLC

\* Largest max_retries a solver is constructed with in the model.
MaxRetriesBound == 2

\* ------------------------------------------------------------------------
\* Values

\* service_language values a solver is constructed with ('en-US' is the default).
ServiceLanguages == {"en-US", "fr-FR"}

\* A transcript is a sequence of characters; the service may return upper case
\* and may return an empty transcript.
Texts == {<<>>, <<"B", "c">>}

LowerChar(c) == IF c = "B" THEN "b" ELSE IF c = "C" THEN "c" ELSE c

\* str.lower()
Lower(t) == [k \in DOMAIN t |-> LowerChar(t[k])]

\* Outcome of one recognize_google call.
TextAnswer(t) == [kind |-> "text", text |-> t]
UnknownAnswer == [kind |-> "unknown", text |-> <<>>]
RequestErrorAnswer == [kind |-> "request_error", text |-> <<>>]

\* Optional[str]: None is <<>>, a string t is <<t>>.
NoneText == <<>>
SomeText(t) == <<t>>

\* Values of the aria-checked attribute ("null" is a missing attribute).
AriaValues == {"true", "false", "null"}

VARIABLES
    max_retries,      \* self._max_retries
    language,         \* self._language
    pc,               \* position of the single thread of control
    ret,              \* position is_solved returns to
    frame,            \* the driver's frame context, outermost first
    i,                \* completed iterations of the retry loop
    site,             \* call site of the running pipeline: "initial" or "retry"
    log,              \* solve's calls on the session and the clock, in order
    outcome,          \* how solve ended: "none", "ok" or the exception raised
    nextId,           \* source of fresh uuid4 identifiers
    id_,              \* id_ of the current pipeline run
    files,            \* the temp directory: set of <<id, extension>>
    created,          \* files the current pipeline run has written
    warned,           \* files whose os.remove raised ([WARN] lines)
    fetched,          \* requests.get was called in the current run
    langIdx,          \* index into languages of the next recognition call
    queried,          \* languages passed to recognize_google in the current run
    answers,          \* outcomes of those calls, in order
    recognized_text,  \* recognized_text of the current run
    exc,              \* exception in flight inside the try block
    field,            \* value of the audio-response text box
    cleared,          \* response_textbox.clear() was called in the current run
    keys,             \* send_keys calls of the current run
    solved,           \* result of the last is_solved call
    probe             \* what the running is_solved call has detected

vars == <<max_retries, language, pc, ret, frame, i, site, log, outcome, nextId,
          id_, files, created, warned, fetched, langIdx, queried, answers,
          recognized_text, exc, field, cleared, keys, solved, probe>>

configVars == <<max_retries, language>>
solveVars == <<i, site, log, outcome>>
runVars == <<nextId, id_, files, created, warned, fetched, langIdx, queried,
             answers, recognized_text, exc, field, cleared, keys>>
probeVars == <<ret, solved, probe>>

\* languages = [language, 'en-US', 'en-GB', 'en']
languages == <<language, "en-US", "en-GB", "en">>

NoProbe == [frame |-> FALSE, switched |-> FALSE, anchor |-> FALSE, read |-> FALSE,
            aria |-> "null"]

\* __init__ and the caller's context before the first call.
Init ==
    /\ max_retries \in 0..MaxRetriesBound
    /\ language \in ServiceLanguages
    /\ pc = "idle"
    /\ ret = "idle"
    /\ frame \in {<<>>, <<"host">>}
    /\ i = 0
    /\ site = "initial"
    /\ log = <<>>
    /\ outcome = "none"
    /\ nextId = 1
    /\ id_ = 0
    /\ files = {}
    /\ created = {}
    /\ warned = {}
    /\ fetched = FALSE
    /\ langIdx = 1
    /\ queried = <<>>
    /\ answers = <<>>
    /\ recognized_text = NoneText
    /\ exc = "none"
    /\ field = <<>>
    /\ cleared = FALSE
    /\ keys = <<>>
    /\ solved = "none"
    /\ probe = NoProbe

\* ------------------------------------------------------------------------
\* solve_recaptcha_v2_challenge

\* An exception that no handler of solve catches leaves solve at once.
Propagate(e) ==
    /\ pc' = "done"
    /\ outcome' = e

\* self.driver.switch_to.frame(iframe)
CallSolve ==
    /\ pc = "idle"
    /\ frame' = Append(frame, "challenge")
    /\ pc' = "audio_button"
    /\ UNCHANGED <<configVars, solveVars, runVars, probeVars>>

\* The audio button is located: click it, then sleep 2 to 3 seconds.
AudioButtonFound ==
    /\ pc = "audio_button"
    /\ log' = log \o <<"audio_click", "sleep">>
    /\ site' = "initial"
    /\ pc' = "pipe_locate"
    /\ UNCHANGED <<configVars, frame, i, outcome, runVars, probeVars>>

\* Variant: the lookup's TimeoutException is not caught.
OnAudioTimeoutRaises == Propagate("timeout")

\* except TimeoutException: pass, and on to the pipeline call.
OnAudioTimeout ==
    /\ pc' = "pipe_locate"
    /\ outcome' = outcome

\* The audio button is not located within 2 seconds.
AudioButtonTimeout ==
    /\ pc = "audio_button"
    /\ log' = Append(log, "audio_timeout")
    /\ site' = "initial"
    /\ OnAudioTimeout
    /\ UNCHANGED <<configVars, frame, i, runVars, probeVars>>

\* ------------------------------------------------------------------------
\* _solve_audio_challenge

\* Variant: except Exception: break.
LoopRaiseCatchAll(e) ==
    /\ pc' = "restore"
    /\ outcome' = outcome

\* An exception raised inside the retry loop's try block: TimeoutException
\* is caught (break), anything else leaves solve.
LoopRaise(e) ==
    IF e = "timeout"
    THEN /\ pc' = "restore"
         /\ outcome' = outcome
    ELSE Propagate(e)

\* Variant: the call site swallows the failure and carries on.
PipelineRaisesSwallowed(e) ==
    /\ pc' = IF site = "initial" THEN "verify" ELSE "retry_verify"
    /\ outcome' = outcome

\* An exception leaving the pipeline reaches the call site it was called from.
PipelineRaises(e) ==
    IF site = "retry" THEN LoopRaise(e) ELSE Propagate(e)

\* Locals of a new call of _solve_audio_challenge.
EnterPipeline ==
    /\ created' = {}
    /\ fetched' = FALSE
    /\ langIdx' = 1
    /\ queried' = <<>>
    /\ answers' = <<>>
    /\ recognized_text' = NoneText
    /\ exc' = "none"
    /\ cleared' = FALSE
    /\ keys' = <<>>

\* Variant: the timeout is ignored and the run goes on to the fetch.
OnLinkTimeoutIgnored ==
    /\ pc' = "pipe_fetch"
    /\ outcome' = outcome

\* except TimeoutException: raise RecaptchaException('Google has detected ...')
OnLinkTimeout == PipelineRaises("detection")

\* The download link is located; a fresh uuid names the temp files.
LocateLinkFound ==
    /\ pc = "pipe_locate"
    /\ EnterPipeline
    /\ log' = Append(log, "pipeline")
    /\ id_' = nextId
    /\ nextId' = nextId + 1
    /\ pc' = "pipe_fetch"
    /\ UNCHANGED <<configVars, frame, i, site, outcome, files, warned, field, probeVars>>

\* The download link is not located within 10 seconds.
LocateLinkTimeout ==
    /\ pc = "pipe_locate"
    /\ EnterPipeline
    /\ log' = log \o <<"pipeline", "link_timeout">>
    /\ OnLinkTimeout
    /\ UNCHANGED <<configVars, frame, i, site, nextId, id_, files, warned, field, probeVars>>

\* tmp_files = {mp3_file, wav_file}
tmp_files == {<<id_, "mp3">>, <<id_, "wav">>}

\* requests.get succeeds and the bytes are written to mp3_file.
FetchOk ==
    /\ pc = "pipe_fetch"
    /\ fetched' = TRUE
    /\ files' = files \cup {<<id_, "mp3">>}
    /\ created' = created \cup {<<id_, "mp3">>}
    /\ pc' = "pipe_transcode"
    /\ UNCHANGED <<configVars, frame, solveVars, nextId, id_, warned, langIdx, queried,
                   answers, recognized_text, exc, field, cleared, keys, probeVars>>

\* requests.get raises a transport error.
FetchFails ==
    /\ pc = "pipe_fetch"
    /\ fetched' = TRUE
    /\ exc' = "fetch_error"
    /\ pc' = "pipe_finally"
    /\ UNCHANGED <<configVars, frame, solveVars, nextId, id_, files, created, warned, langIdx,
                   queried, answers, recognized_text, field, cleared, keys, probeVars>>

\* AudioSegment.from_mp3(mp3_file).export(wav_file) and the load of the clip.
TranscodeOk ==
    /\ pc = "pipe_transcode"
    /\ files' = files \cup {<<id_, "wav">>}
    /\ created' = created \cup {<<id_, "wav">>}
    /\ pc' = "pipe_recognize"
    /\ UNCHANGED <<configVars, frame, solveVars, nextId, id_, warned, fetched, langIdx, queried,
                   answers, recognized_text, exc, field, cleared, keys, probeVars>>

\* The transcoder raises, before or after it has created wav_file.
TranscodeFails ==
    /\ pc = "pipe_transcode"
    /\ \E wavWritten \in BOOLEAN :
          /\ files' = IF wavWritten THEN files \cup {<<id_, "wav">>} ELSE files
          /\ created' = IF wavWritten THEN created \cup {<<id_, "wav">>} ELSE created
    /\ exc' = "transcode_error"
    /\ pc' = "pipe_finally"
    /\ UNCHANGED <<configVars, frame, solveVars, nextId, id_, warned, fetched, langIdx, queried,
                   answers, recognized_text, field, cleared, keys, probeVars>>

\* continue: go on with the next language, or leave the for loop after the last.
NextLanguage ==
    IF langIdx < Len(languages)
    THEN /\ langIdx' = langIdx + 1
         /\ pc' = "pipe_recognize"
    ELSE /\ langIdx' = langIdx
         /\ pc' = "pipe_check"

\* Variant: no break after a result, later languages overwrite it.
AfterTextContinue ==
    /\ NextLanguage
    /\ exc' = exc

\* recognize_google returned: break
AfterText ==
    /\ langIdx' = langIdx
    /\ pc' = "pipe_check"
    /\ exc' = exc

\* except sr.UnknownValueError: continue
AfterUnknown ==
    /\ NextLanguage
    /\ exc' = exc

\* Variant: a service error is treated like UnknownValueError.
AfterRequestErrorContinue ==
    /\ NextLanguage
    /\ exc' = exc

\* except sr.RequestError as e: raise RecaptchaException('Speech recognition service error')
AfterRequestError ==
    /\ langIdx' = langIdx
    /\ pc' = "pipe_finally"
    /\ exc' = "service_error"

RecognizeText ==
    /\ pc = "pipe_recognize"
    /\ \E t \in Texts :
          /\ answers' = Append(answers, TextAnswer(t))
          /\ recognized_text' = SomeText(Lower(t))
    /\ queried' = Append(queried, languages[langIdx])
    /\ AfterText
    /\ UNCHANGED <<configVars, frame, solveVars, nextId, id_, files, created, warned, fetched,
                   field, cleared, keys, probeVars>>

RecognizeUnknown ==
    /\ pc = "pipe_recognize"
    /\ answers' = Append(answers, UnknownAnswer)
    /\ queried' = Append(queried, languages[langIdx])
    /\ AfterUnknown
    /\ UNCHANGED <<configVars, frame, solveVars, nextId, id_, files, created, warned, fetched,
                   recognized_text, field, cleared, keys, probeVars>>

RecognizeRequestError ==
    /\ pc = "pipe_recognize"
    /\ answers' = Append(answers, RequestErrorAnswer)
    /\ queried' = Append(queried, languages[langIdx])
    /\ AfterRequestError
    /\ UNCHANGED <<configVars, frame, solveVars, nextId, id_, files, created, warned, fetched,
                   recognized_text, field, cleared, keys, probeVars>>

\* Python's `not recognized_text`: None and the empty string are both falsy.
NotText(rt) == IF rt = NoneText THEN TRUE ELSE rt[1] = <<>>

\* if not recognized_text: raise RecaptchaException('... could not understand audio')
CheckNotRecognized ==
    /\ pc = "pipe_check"
    /\ NotText(recognized_text)
    /\ exc' = "recognition_failed"
    /\ pc' = "pipe_finally"
    /\ UNCHANGED <<configVars, frame, solveVars, nextId, id_, files, created, warned, fetched,
                   langIdx, queried, answers, recognized_text, field, cleared, keys, probeVars>>

CheckRecognized ==
    /\ pc = "pipe_check"
    /\ ~NotText(recognized_text)
    /\ pc' = "pipe_finally"
    /\ UNCHANGED <<configVars, frame, solveVars, runVars, probeVars>>

\* Variant: the wav file is left out of tmp_files.
RemovalCandidatesMp3Only == {p \in {<<id_, "mp3">>} : p \in files}

\* for path in tmp_files: if os.path.exists(path)
RemovalCandidates == {p \in tmp_files : p \in files}

\* finally: os.remove each existing temp file; a removal that raises is logged
\* and skipped.  Then the exception in flight, if any, leaves the pipeline.
Finally ==
    /\ pc = "pipe_finally"
    /\ \E failing \in SUBSET RemovalCandidates :
          /\ files' = files \ (RemovalCandidates \ failing)
          /\ warned' = warned \cup failing
    /\ IF exc = "none"
       THEN /\ pc' = "pipe_textbox"
            /\ UNCHANGED <<log, outcome>>
       ELSE /\ log' = Append(log, "pipeline_fail")
            /\ PipelineRaises(exc)
    /\ UNCHANGED <<configVars, frame, i, site, nextId, id_, created, fetched, langIdx, queried,
                   answers, recognized_text, exc, field, cleared, keys, probeVars>>

\* Variant: the text box is not cleared.
ClearedFieldKept == field

\* response_textbox.clear()
ClearedField == <<>>

\* response_textbox = find_element(By.ID, 'audio-response'); response_textbox.clear()
TextboxFound ==
    /\ pc = "pipe_textbox"
    /\ field' = ClearedField
    /\ cleared' = TRUE
    /\ pc' = "pipe_type"
    /\ UNCHANGED <<configVars, frame, solveVars, nextId, id_, files, created, warned, fetched,
                   langIdx, queried, answers, recognized_text, exc, keys, probeVars>>

\* find_element raises NoSuchElementException.
TextboxMissing ==
    /\ pc = "pipe_textbox"
    /\ log' = Append(log, "pipeline_fail")
    /\ PipelineRaises("no_such_element")
    /\ UNCHANGED <<configVars, frame, i, site, runVars, probeVars>>

\* _human_type: for c in text: element.send_keys(c)
TypeChar ==
    /\ pc = "pipe_type"
    /\ Len(keys) < Len(recognized_text[1])
    /\ LET c == recognized_text[1][Len(keys) + 1] IN
          /\ keys' = Append(keys, c)
          /\ field' = Append(field, c)
    /\ UNCHANGED <<configVars, pc, frame, solveVars, nextId, id_, files, created, warned,
                   fetched, langIdx, queried, answers, recognized_text, exc, cleared, probeVars>>

\* The pipeline returns to its call site.
TypeDone ==
    /\ pc = "pipe_type"
    /\ Len(keys) = Len(recognized_text[1])
    /\ log' = Append(log, "pipeline_ok")
    /\ pc' = IF site = "initial" THEN "verify" ELSE "retry_verify"
    /\ UNCHANGED <<configVars, frame, i, site, outcome, runVars, probeVars>>

\* ------------------------------------------------------------------------
\* solve_recaptcha_v2_challenge, after the first transcription

\* The verify button is located and clicked; then the policy's verify delay.
VerifyFound ==
    /\ pc = "verify"
    /\ log' = log \o <<"verify_click", "delay_after_click_verify_button">>
    /\ i' = 0
    /\ pc' = "loop"
    /\ UNCHANGED <<configVars, frame, site, outcome, runVars, probeVars>>

\* The verify button is not located within 5 seconds: outside any try block.
VerifyTimeout ==
    /\ pc = "verify"
    /\ log' = Append(log, "verify_timeout")
    /\ Propagate("timeout")
    /\ UNCHANGED <<configVars, frame, i, site, runVars, probeVars>>

\* Variant: range(self._max_retries + 1).
RetryBoundOffByOne == max_retries + 1

\* for i in range(self._max_retries)
RetryBound == max_retries

\* Variant: continue instead of break.
OnProbeTimeoutContinue ==
    /\ pc' = "loop"
    /\ i' = i + 1
    /\ outcome' = outcome

\* The probe's TimeoutException: except TimeoutException: break
OnProbeTimeout ==
    /\ LoopRaise("timeout")
    /\ i' = i

\* The error message is visible: the pipeline runs again.
ProbePresent ==
    /\ pc = "loop"
    /\ i < RetryBound
    /\ log' = Append(log, "probe_present")
    /\ site' = "retry"
    /\ pc' = "pipe_locate"
    /\ UNCHANGED <<configVars, frame, i, outcome, runVars, probeVars>>

\* The error message does not show within 1 second.
ProbeAbsent ==
    /\ pc = "loop"
    /\ i < RetryBound
    /\ log' = Append(log, "probe_absent")
    /\ OnProbeTimeout
    /\ UNCHANGED <<configVars, frame, site, runVars, probeVars>>

\* The verify button is located again and clicked; next iteration.
RetryVerifyFound ==
    /\ pc = "retry_verify"
    /\ log' = Append(log, "verify_click")
    /\ i' = i + 1
    /\ pc' = "loop"
    /\ UNCHANGED <<configVars, frame, site, outcome, runVars, probeVars>>

\* The verify button is not located again: the TimeoutException is raised
\* inside the loop's try block.
RetryVerifyTimeout ==
    /\ pc = "retry_verify"
    /\ log' = Append(log, "verify_timeout")
    /\ LoopRaise("timeout")
    /\ UNCHANGED <<configVars, frame, i, site, runVars, probeVars>>

\* else: raise RecaptchaException('Failed to solve captcha after maximum retry attempts')
RetriesExhausted ==
    /\ pc = "loop"
    /\ i >= RetryBound
    /\ Propagate("retries_exhausted")
    /\ UNCHANGED <<configVars, frame, i, site, log, runVars, probeVars>>

\* driver.switch_to.parent_frame(): one level up, a no-op at the top.
ParentOf(f) == IF f = <<>> THEN f ELSE SubSeq(f, 1, Len(f) - 1)

\* self.driver.switch_to.parent_frame(), then solve returns None.
ParentFrame ==
    /\ pc = "restore"
    /\ frame' = ParentOf(frame)
    /\ pc' = "done"
    /\ outcome' = "ok"
    /\ UNCHANGED <<configVars, i, site, log, runVars, probeVars>>

\* ------------------------------------------------------------------------
\* is_solved

IsSolvedPcs == {"is_default", "is_find", "is_switch", "is_wait", "is_read", "is_except"}

\* Position of the caller's flow: inside is_solved it is where is_solved returns to.
SolvePc == IF pc \in IsSolvedPcs THEN ret ELSE pc

\* The caller calls is_solved, before solve or after solve has ended.
CallIsSolved ==
    /\ pc \in {"idle", "done"}
    /\ ret' = pc
    /\ pc' = "is_default"
    /\ solved' = "none"
    /\ probe' = NoProbe
    /\ UNCHANGED <<configVars, frame, solveVars, runVars>>

\* self.driver.switch_to.default_content()
DefaultContent ==
    /\ pc = "is_default"
    /\ frame' = <<>>
    /\ pc' = "is_find"
    /\ UNCHANGED <<configVars, solveVars, runVars, probeVars>>

\* find_element(By.XPATH, "//iframe[contains(@title, 'reCAPTCHA')]")
FindFrameFound ==
    /\ pc = "is_find"
    /\ probe' = [probe EXCEPT !.frame = TRUE]
    /\ pc' = "is_switch"
    /\ UNCHANGED <<configVars, frame, solveVars, runVars, ret, solved>>

FindFrameMissing ==
    /\ pc = "is_find"
    /\ pc' = "is_except"
    /\ UNCHANGED <<configVars, frame, solveVars, runVars, probeVars>>

\* self.driver.switch_to.frame(iframe_check)
SwitchFrameOk ==
    /\ pc = "is_switch"
    /\ frame' = Append(frame, "checkbox")
    /\ probe' = [probe EXCEPT !.switched = TRUE]
    /\ pc' = "is_wait"
    /\ UNCHANGED <<configVars, solveVars, runVars, ret, solved>>

\* The frame reference went stale or the frame is gone.
SwitchFrameFails ==
    /\ pc = "is_switch"
    /\ pc' = "is_except"
    /\ UNCHANGED <<configVars, frame, solveVars, runVars, probeVars>>

\* WebDriverWait(self.driver, 5).until(presence_of_element_located(recaptcha-anchor))
WaitAnchorFound ==
    /\ pc = "is_wait"
    /\ probe' = [probe EXCEPT !.anchor = TRUE]
    /\ pc' = "is_read"
    /\ UNCHANGED <<configVars, frame, solveVars, runVars, ret, solved>>

WaitAnchorTimeout ==
    /\ pc = "is_wait"
    /\ pc' = "is_except"
    /\ UNCHANGED <<configVars, frame, solveVars, runVars, probeVars>>

\* is_solved = aria_checked == "true"
AriaSolved(a) == IF a = "true" THEN "true" ELSE "false"

\* get_attribute, the comparison, default_content() and return is_solved.
ReadAria ==
    /\ pc = "is_read"
    /\ \E a \in AriaValues :
          /\ probe' = [probe EXCEPT !.read = TRUE, !.aria = a]
          /\ solved' = AriaSolved(a)
    /\ frame' = <<>>
    /\ pc' = ret
    /\ UNCHANGED <<configVars, solveVars, runVars, ret>>

\* get_attribute raises StaleElementReferenceException.
ReadAriaStale ==
    /\ pc = "is_read"
    /\ pc' = "is_except"
    /\ UNCHANGED <<configVars, frame, solveVars, runVars, probeVars>>

\* Variant: the handler lets the exception escape.
HandlerReraises == "raised"

\* except Exception: ... return False
HandlerResult == "false"

\* Variant: the handler does not reset the frame context.
HandlerFrameKept == frame

\* except Exception: self.driver.switch_to.default_content()
HandlerFrame == <<>>

IsSolvedExcept ==
    /\ pc = "is_except"
    /\ frame' = HandlerFrame
    /\ solved' = HandlerResult
    /\ pc' = ret
    /\ UNCHANGED <<configVars, solveVars, runVars, ret, probe>>

\* ------------------------------------------------------------------------

Next ==
    \/ CallSolve
    \/ AudioButtonFound
    \/ AudioButtonTimeout
    \/ LocateLinkFound
    \/ LocateLinkTimeout
    \/ FetchOk
    \/ FetchFails
    \/ TranscodeOk
    \/ TranscodeFails
    \/ RecognizeText
    \/ RecognizeUnknown
    \/ RecognizeRequestError
    \/ CheckNotRecognized
    \/ CheckRecognized
    \/ Finally
    \/ TextboxFound
    \/ TextboxMissing
    \/ TypeChar
    \/ TypeDone
    \/ VerifyFound
    \/ VerifyTimeout
    \/ ProbePresent
    \/ ProbeAbsent
    \/ RetryVerifyFound
    \/ RetryVerifyTimeout
    \/ RetriesExhausted
    \/ ParentFrame
    \/ CallIsSolved
    \/ DefaultContent
    \/ FindFrameFound
    \/ FindFrameMissing
    \/ SwitchFrameOk
    \/ SwitchFrameFails
    \/ WaitAnchorFound
    \/ WaitAnchorTimeout
    \/ ReadAria
    \/ ReadAriaStale
    \/ IsSolvedExcept

Spec == Init /\ [][Next]_vars

\* ------------------------------------------------------------------------
\* Properties

Count(e) == Cardinality({k \in DOMAIN log : log[k] = e})

LastEvent == IF log = <<>> THEN "none" ELSE log[Len(log)]

\* Positions inside the pipeline's try block (lines 191 to 238).
TryPcs == {"pipe_fetch", "pipe_transcode", "pipe_recognize", "pipe_check", "pipe_finally"}

\* C1 (as claimed): whenever solve has ended, normally or by an exception, the
\* session is no longer inside the challenge frame.
C1_FrameRestoredOnEveryExit ==
    pc = "done" => \A k \in DOMAIN frame : frame[k] # "challenge"

C3_AbsentProbeEndsSolve ==
    \A k \in DOMAIN log :
        log[k] = "probe_absent"
            => /\ k = Len(log)
               /\ SolvePc \in {"restore", "done"}
               /\ (SolvePc = "done" => outcome = "ok")

C3_Witness ==
    /\ pc = "done"
    /\ outcome = "ok"
    /\ LastEvent = "probe_absent"
    /\ Count("probe_present") = 1
    /\ Count("pipeline") = 2

\* C4 (as claimed): outside the pipeline's try block no temp file of the
\* current attempt's identifier is on disk.
C4_NoTempFileRemains ==
    pc \notin TryPcs => \A f \in files : f[1] # id_

\* C4 (amended): outside the pipeline's try block the only temp files on disk
\* are those whose removal raised and was reported with a warning.
C4_OnlyUnremovableRemain ==
    pc \notin TryPcs => files = warned

C4_Witness ==
    /\ pc = "done"
    /\ outcome = "service_error"
    /\ created = {<<id_, "mp3">>, <<id_, "wav">>}
    /\ files = {}

\* C5: once some language has returned text, it is the last language queried,
\* every language before it returned 'could not understand', the languages
\* queried are the prefix of the fallback list up to it, the transcript is its
\* lower-cased text, and that is what a successful run leaves in the field.
C5_FirstAnswerWins ==
    \A j \in DOMAIN answers :
        answers[j].kind = "text"
            => /\ j = Len(answers)
               /\ pc # "pipe_recognize"
               /\ \A m \in 1..(j - 1) : answers[m].kind = "unknown"
               /\ queried = SubSeq(languages, 1, j)
               /\ recognized_text = SomeText(Lower(answers[j].text))
               /\ (pc \in {"verify", "retry_verify"} => field = Lower(answers[j].text))

C5_Witness ==
    /\ pc = "verify"
    /\ Len(answers) = 3
    /\ answers[1].kind = "unknown"
    /\ answers[2].kind = "unknown"
    /\ answers[3] = TextAnswer(<<"B", "c">>)
    /\ field = <<"b", "c">>

\* The running is_solved call found the frame, entered it, found the checkbox
\* and read its attribute.
Detected == probe.frame /\ probe.switched /\ probe.anchor /\ probe.read

\* A step in which is_solved hands control back to its caller.
IsSolvedLeaves == pc \in IsSolvedPcs /\ pc' \notin IsSolvedPcs

C7_ServiceErrorAborts ==
    \A j \in DOMAIN answers :
        answers[j].kind = "request_error"
            => /\ j = Len(answers)
               /\ pc # "pipe_recognize"
               /\ SolvePc \in {"pipe_finally", "done"}
               /\ exc = "service_error"
               /\ keys = <<>>
               /\ ~cleared
               /\ (SolvePc = "done" => outcome = "service_error" /\ LastEvent = "pipeline_fail")

C7_Witness ==
    /\ pc = "done"
    /\ outcome = "service_error"
    /\ Len(answers) = 2
    /\ answers[1].kind = "unknown"

AllUnknown == Len(answers) = Len(languages) /\ \A j \in DOMAIN answers : answers[j].kind = "unknown"

\* C8: when all four languages return 'could not understand' in the initial
\* transcription, the pipeline raises the recognition failure and solve ends
\* with it: no verify click and no probe of the retry loop happens.
C8_InitialRecognitionFailure ==
    (site = "initial" /\ AllUnknown)
        => /\ SolvePc \in {"pipe_check", "pipe_finally", "done"}
           /\ (SolvePc = "pipe_finally" => exc = "recognition_failed")
           /\ (SolvePc = "done" => outcome = "recognition_failed")
           /\ Count("verify_click") = 0
           /\ Count("probe_present") + Count("probe_absent") = 0

C8_Witness ==
    /\ pc = "done"
    /\ outcome = "recognition_failed"
    /\ site = "initial"
    /\ AllUnknown

\* C9: every return of is_solved leaves the frame context at the top-level
\* document, and the value returned is true exactly when the frame and the
\* checkbox were found and the attribute read was "true".
C9_IsSolvedResult ==
    [][IsSolvedLeaves => /\ frame' = <<>>
                         /\ (solved' = "true" <=> (Detected' /\ probe'.aria = "true"))]_vars

C9_Witness ==
    /\ pc = "done"
    /\ outcome = "detection"
    /\ solved = "true"
    /\ frame = <<>>

\* C10: when the download link is not located the run ends at once with the
\* detection error: no fetch, no temp file, no recognition call, no clearing
\* of or typing into the response field.
C10_LinkTimeout ==
    LastEvent = "link_timeout"
        => /\ SolvePc = "done"
           /\ outcome = "detection"
           /\ ~fetched
           /\ created = {}
           /\ queried = <<>>
           /\ ~cleared
           /\ keys = <<>>

C10_Witness ==
    /\ pc = "done"
    /\ outcome = "detection"
    /\ site = "retry"
    /\ nextId = 2
    /\ ~fetched

\* C11: the audio button is looked up at most once per solve, and a lookup
\* that times out does not end solve: solve goes on to the pipeline call, which
\* is the next thing it does, as after a click.
C11_AudioTimeoutIsBenign ==
    /\ Count("audio_click") + Count("audio_timeout") <= 1
    /\ (LastEvent = "audio_timeout"
            => SolvePc = "pipe_locate" /\ site = "initial" /\ outcome = "none")
    /\ \A k \in DOMAIN log :
          (log[k] = "audio_timeout" /\ k < Len(log)) => log[k + 1] = "pipeline"

C11_Witness ==
    /\ pc = "done"
    /\ outcome = "ok"
    /\ log[1] = "audio_timeout"
    /\ Count("pipeline") = 1

\* C12 (as claimed): solve returns normally only after a probe that found no
\* error indicator.
C12_NormalReturnOnlyAfterAbsentProbe ==
    (pc = "done" /\ outcome = "ok") => Count("probe_absent") >= 1

\* A pipeline run called from the retry loop has just failed.
RetryRunFailed == site = "retry" /\ LastEvent \in {"pipeline_fail", "link_timeout"}

\* C13: a pipeline failure inside the retry loop ends solve with that failure:
\* nothing follows it in solve, and solve does not return normally nor report
\* a timeout or exhausted retries in its place.
C13_RetryFailurePropagates ==
    RetryRunFailed
        => /\ SolvePc = "done"
           /\ outcome \in {"detection", "fetch_error", "transcode_error", "service_error",
                           "recognition_failed", "no_such_element"}
           /\ (LastEvent = "link_timeout" => outcome = "detection")
           /\ (exc # "none" => outcome = exc)

C13_Witness ==
    /\ pc = "done"
    /\ site = "retry"
    /\ LastEvent = "pipeline_fail"
    /\ outcome = "recognition_failed"
    /\ AllUnknown

\* C14 (as claimed): the pipeline is leaving with the recognition failure only
\* when all four languages were queried and each returned 'could not
\* understand'.
C14_RecognitionFailureOnlyIfAllUnknown ==
    exc = "recognition_failed" => AllUnknown

ProbesPresent == Count("probe_present")

\* Calls of the pipeline made so far: the call is made on reaching its first
\* statement, the wait for the download link.
PipelinesStarted == Count("pipeline") + (IF pc = "pipe_locate" THEN 1 ELSE 0)

PipelinePcs == TryPcs \cup {"pipe_locate", "pipe_textbox", "pipe_type"}

\* C15: the number of probes that saw the error indicator stays within
\* 0..max_retries, it is the loop index between iterations and one more inside
\* an iteration, and from the initial pipeline call on the number of pipeline
\* calls is one more than it.
C15_RetryCounter ==
    /\ ProbesPresent \in 0..max_retries
    /\ (SolvePc = "loop" => ProbesPresent = i)
    /\ ((site = "retry" /\ SolvePc \in PipelinePcs \cup {"retry_verify"})
            => ProbesPresent = i + 1)
    /\ (SolvePc \notin {"idle", "audio_button"} => PipelinesStarted = 1 + ProbesPresent)

C15_Witness ==
    /\ pc = "loop"
    /\ i = 2
    /\ ProbesPresent = 2
    /\ Count("pipeline") = 3

\* C16: every verify click comes right after a pipeline run that returned, no
\* pipeline failure precedes it, and when it is made the response field was
\* cleared in that run and holds exactly that run's transcript.
C16_VerifyAfterTranscript ==
    /\ \A k \in DOMAIN log :
          log[k] = "verify_click"
              => /\ k > 1
                 /\ log[k - 1] = "pipeline_ok"
                 /\ \A m \in 1..k : log[m] \notin {"pipeline_fail", "link_timeout"}
    /\ (LastEvent \in {"verify_click", "delay_after_click_verify_button"}
            => /\ cleared
               /\ recognized_text # NoneText
               /\ field = recognized_text[1]
               /\ keys = field)

C16_Witness ==
    /\ pc = "loop"
    /\ LastEvent = "verify_click"
    /\ Count("verify_click") = 2
    /\ field = <<"b", "c">>

\* C17 (as claimed): when solve has ended, every verify click was followed by
\* a probe for the error indicator.
C17_EveryVerifyIsProbed ==
    pc = "done"
        => \A k \in DOMAIN log :
              log[k] = "verify_click"
                  => \E m \in (k + 1)..Len(log) : log[m] \in {"probe_present", "probe_absent"}

\* C18 (as claimed): solve ends with retries exhausted only if some probe saw
\* the error indicator.
C18_ExhaustedOnlyAfterError ==
    (pc = "done" /\ outcome = "retries_exhausted") => ProbesPresent >= 1

\* C19 (as claimed): solve never sleeps on its own, and the pipeline is not
\* called before the policy's delay_after_click_checkbox.
C19_PausesOnlyByPolicy ==
    /\ Count("sleep") = 0
    /\ (PipelinesStarted >= 1 => Count("delay_after_click_checkbox") >= 1)

FilesOfRun == {f \in files : f[1] = id_}

\* The response field as the current run has left it so far: cleared, then one
\* keystroke per character of the transcript, in order.
FieldIsTypedPrefix ==
    /\ recognized_text # NoneText
    /\ field = keys
    /\ Len(keys) <= Len(recognized_text[1])
    /\ keys = SubSeq(recognized_text[1], 1, Len(keys))

\* C20 (as claimed): once the field has been cleared in a run, none of the
\* run's temp files is on disk, and the field holds a prefix of the run's
\* transcript, the whole lower-cased transcript when the run returns.
C20_InjectionAsClaimed ==
    /\ (cleared => FilesOfRun = {} /\ FieldIsTypedPrefix)
    /\ (SolvePc \in {"verify", "retry_verify"}
            => cleared /\ field = Lower(answers[Len(answers)].text))

\* C20 (amended): once the field has been cleared in a run, the run's cleanup
\* is over (the only temp files of the run left are those whose removal
\* raised), and the field holds a prefix of the run's transcript, the whole
\* lower-cased transcript when the run returns.
C20_Injection ==
    /\ (cleared => /\ pc \notin TryPcs
                   /\ FilesOfRun \subseteq warned
                   /\ FieldIsTypedPrefix)
    /\ (SolvePc \in {"verify", "retry_verify"}
            => cleared /\ field = Lower(answers[Len(answers)].text))

C20_Witness ==
    /\ pc = "retry_verify"
    /\ cleared
    /\ created = {<<id_, "mp3">>, <<id_, "wav">>}
    /\ files = {}
    /\ answers[Len(answers)] = TextAnswer(<<"B", "c">>)
    /\ field = <<"b", "c">>

====
